---- MODULE Spec2Model ----
(***************************************************************************)
(* Model of the drone-github-app plugin (plugin/plugin.go, plugin/util.go). *)
(* One run of Exec is a sequential process; its position is pc.  The        *)
(* environment (clock, file system, GitHub API, secret store) supplies the  *)
(* nondeterministic inputs of each step.                                    *)
(*                                                                          *)
(* Go strings that the code parses are sequences of one-character strings;  *)
(* option values that are only compared with "" are TLA+ strings.           *)
(* Key material is a sequence of chunks: "K" a PEM block holding an RSA     *)
(* private key, "S" a PEM block holding an RSA key too short to sign with   *)
(* RS256, "G" bytes that are no PEM block.  A base64 string is a sequence   *)
(* of quanta named after the chunk they decode to, "!" being a character    *)
(* outside the base64 alphabet.                                             *)
(***************************************************************************)
EXTENDS Integers, Sequences, FiniteSets, TLC

VARIABLES
    args,       \* the Args Exec was called with
    pc,         \* the position of Exec; "returned" and "panicked" are final
    err,        \* the error Exec returned
    now,        \* the wall clock, in seconds
    iat,        \* the first reading of the clock
    keyErr,     \* whether reading or decoding the key source gave an error
    bPem,       \* the bytes of the key source
    jwtSigned,  \* <<claims>> once the JWT is signed
    appData,    \* the AppResponse of validateJWT
    tokenData,  \* the TokenResponse of installationToken
    repoData,   \* the map parseRepositoryData returned (empty: nil)
    permissions, \* the map parsePermissions returned (empty: nil)
    repoFile,   \* <<outcome>> once os.ReadFile(RepoIDsFile) was called
    sent,       \* the HTTP requests sent, in order
    getResp,    \* <<response>> once GET /app was answered
    postResp,   \* <<response>> once the token POST was answered
    outLog      \* the writes to files and secrets attempted, in order

vars == <<args, pc, err, now, iat, keyErr, bPem, jwtSigned, appData, tokenData, repoData, repoFile, permissions,
          sent, getResp, postResp, outLog>>

(* ---------------------------- bounds ---------------------------------- *)

\* the wall clock may advance this many seconds during one run
MaxTicks == 2

(* -------------------------- string helpers ---------------------------- *)

\* unicode.IsSpace restricted to the characters of the model
IsSpace(c) == c \in {" ", "\n", "\t"}

\* strings.TrimSpace
TrimSpace(s) ==
    LET keep == {i \in 1..Len(s) : ~IsSpace(s[i])}
    IN  IF keep = {} THEN <<>>
        ELSE LET lo == CHOOSE i \in keep : \A j \in keep : i <= j
                 hi == CHOOSE i \in keep : \A j \in keep : i >= j
             IN  SubSeq(s, lo, hi)

\* strings.Contains(s, c) for a one-character c
Contains(s, c) == \E i \in 1..Len(s) : s[i] = c

\* strings.Split(s, sep) for a one-character sep: always at least one piece
Split(s, sep) ==
    LET at == SelectSeq([i \in 1..Len(s) |-> i], LAMBDA i : s[i] = sep)
        from(k) == IF k = 1 THEN 1 ELSE at[k - 1] + 1
        to(k) == IF k = Len(at) + 1 THEN Len(s) ELSE at[k] - 1
    IN  [k \in 1..(Len(at) + 1) |-> SubSeq(s, from(k), to(k))]

Digits == {"0", "1", "2", "3", "4", "5", "6", "7", "8", "9"}

DigitVal(c) ==
    CASE c = "0" -> 0 [] c = "1" -> 1 [] c = "2" -> 2 [] c = "3" -> 3
      [] c = "4" -> 4 [] c = "5" -> 5 [] c = "6" -> 6 [] c = "7" -> 7
      [] c = "8" -> 8 [] c = "9" -> 9

RECURSIVE DecimalVal(_)
DecimalVal(s) ==
    IF s = <<>> THEN 0
    ELSE 10 * DecimalVal(SubSeq(s, 1, Len(s)-1)) + DigitVal(s[Len(s)])

\* strconv.Atoi: an optional sign, then one or more decimal digits
AtoiOk(s) ==
    LET body == IF s # <<>> /\ s[1] \in {"+", "-"} THEN Tail(s) ELSE s
    IN  /\ body # <<>>
        /\ \A i \in 1..Len(body) : body[i] \in Digits

Atoi(s) ==
    IF s[1] = "-" THEN 0 - DecimalVal(Tail(s))
    ELSE IF s[1] = "+" THEN DecimalVal(Tail(s))
    ELSE DecimalVal(s)

(* ------------------------------ errors -------------------------------- *)

\* a Go error value: the message kind and the offending input it names
Error(kind, item) == [kind |-> kind, item |-> item]

\* the nil error
NoErr == Error("nil", <<>>)

(* --------------------------- key material ----------------------------- *)

\* base64.StdEncoding.DecodeString: decodes up to the first character that
\* is not base64 and returns the bytes decoded so far with the error
Base64Decode(s) ==
    LET bad == {i \in 1..Len(s) : s[i] = "!"}
        n   == IF bad = {} THEN Len(s)
               ELSE (CHOOSE i \in bad : \A j \in bad : i <= j) - 1
    IN  [bytes |-> SubSeq(s, 1, n), failed |-> bad # {}]

\* jwt.ParseRSAPrivateKeyFromPEM: pem.Decode skips to the first PEM block
ParseRSAPrivateKeyFromPEM(b) ==
    LET blocks == SelectSeq(b, LAMBDA c : c \in {"K", "S"})
    IN  IF blocks = <<>>
        THEN [key |-> "none", err |-> Error("key must be PEM encoded", <<>>)]
        ELSE [key |-> blocks[1], err |-> NoErr]

\* Token.SignedString with RS256: fails when the modulus is too short
SignedString(key, claims) ==
    IF key = "S"
    THEN [jwt |-> <<>>, err |-> Error("rsa: message too long", <<>>)]
    ELSE [jwt |-> <<claims>>, err |-> NoErr]

(* ---------------------- repository selection -------------------------- *)

\* program constant: the largest repository list accepted
MaxRepoEntries == 500

\* the validation with the count compared to 2 instead of 1
validateRepositoryArgs_OffByOne(a) ==
    LET repoArgsCount == (IF a.RepoIDs # <<>> THEN 1 ELSE 0)
                       + (IF a.RepoNames # <<>> THEN 1 ELSE 0)
                       + (IF a.RepoIDsFile # "" THEN 1 ELSE 0)
    IN  IF repoArgsCount > 2
        THEN Error("only one of repo_ids, repo_names, or repo_ids_file", <<>>)
        ELSE IF repoArgsCount > 0 /\ a.Installation = ""
        THEN Error("installation must be specified", <<>>)
        ELSE NoErr

validateRepositoryArgs(a) ==
    LET repoArgsCount == (IF a.RepoIDs # <<>> THEN 1 ELSE 0)
                       + (IF a.RepoNames # <<>> THEN 1 ELSE 0)
                       + (IF a.RepoIDsFile # "" THEN 1 ELSE 0)
    IN  IF repoArgsCount > 1
        THEN Error("only one of repo_ids, repo_names, or repo_ids_file", <<>>)
        ELSE IF repoArgsCount > 0 /\ a.Installation = ""
        THEN Error("installation must be specified", <<>>)
        ELSE NoErr

\* every element of a list of strings trimmed
TrimAll(ss) == [i \in 1..Len(ss) |-> TrimSpace(ss[i])]

NonEmpty(ss) == SelectSeq(ss, LAMBDA x : x # <<>>)

\* a variant that takes every line as one item
lineItems_Whole(line) == IF line = <<>> THEN <<>> ELSE <<line>>

\* the items one trimmed line of the repo_ids_file adds
lineItems(line) ==
    IF line = <<>> THEN <<>>
    ELSE IF Contains(line, ",")
    THEN NonEmpty(TrimAll(Split(line, ",")))
    ELSE <<line>>

\* the loop over the lines of the repo_ids_file
RECURSIVE FileItems(_)
FileItems(lines) ==
    IF lines = <<>> THEN <<>>
    ELSE lineItems(TrimSpace(Head(lines))) \o FileItems(Tail(lines))

\* a variant that finds the last TRUE
FirstIndex_Last(flags) ==
    LET hits == {i \in 1..Len(flags) : flags[i]}
    IN  IF hits = {} THEN 0 ELSE CHOOSE i \in hits : \A j \in hits : i >= j

\* index of the first TRUE of a list of flags, 0 when there is none: the
\* item at which a loop that returns on the first fault stops
FirstIndex(flags) ==
    LET hits == {i \in 1..Len(flags) : flags[i]}
    IN  IF hits = {} THEN 0 ELSE CHOOSE i \in hits : \A j \in hits : i <= j

\* parseRepositoryData; file is the outcome of os.ReadFile(RepoIDsFile).
\* data is the returned map (the empty function stands for nil).
parseRepositoryData(a, file) ==
    LET useNames == a.RepoIDs = <<>> /\ a.RepoNames # <<>>
        readFile == a.RepoIDs = <<>> /\ a.RepoNames = <<>> /\ a.RepoIDsFile # ""
        items == IF a.RepoIDs # <<>> THEN Split(TrimSpace(a.RepoIDs), ",")
                 ELSE IF a.RepoNames # <<>> THEN Split(TrimSpace(a.RepoNames), ",")
                 ELSE IF a.RepoIDsFile # "" THEN FileItems(Split(file.content, "\n"))
                 ELSE <<>>
        kept  == NonEmpty(TrimAll(items))
        badName == FirstIndex([i \in 1..Len(kept) |-> Contains(kept[i], "/")])
        badID   == FirstIndex([i \in 1..Len(kept) |-> ~AtoiOk(kept[i])])
    IN  IF readFile /\ file.failed
        THEN [data |-> <<>>, err |-> Error("failed to read repo_ids_file", <<>>)]
        ELSE IF Len(items) = 0
        THEN [data |-> <<>>, err |-> NoErr]
        ELSE IF Len(items) > MaxRepoEntries
        THEN [data |-> <<>>, err |-> Error("repository list cannot contain more than 500 entries", <<>>)]
        ELSE IF useNames
        THEN IF badName # 0
             THEN [data |-> <<>>, err |-> Error("repository name should not include owner", kept[badName])]
             ELSE [data |-> [k \in {"repositories"} |-> kept], err |-> NoErr]
        ELSE IF badID # 0
             THEN [data |-> <<>>, err |-> Error("invalid repository ID", kept[badID])]
             ELSE [data |-> [k \in {"repository_ids"} |-> [i \in 1..Len(kept) |-> Atoi(kept[i])]],
                   err |-> NoErr]

(* --------------------------- permissions ------------------------------ *)

\* a variant that only asks for a colon
PermissionFault_AtLeastTwo(item) ==
    LET parts == Split(item, ":")
    IN  IF Len(parts) < 2 THEN "invalid permission format: expected resource:permission"
        ELSE IF TrimSpace(parts[1]) = <<>> \/ TrimSpace(parts[2]) = <<>>
        THEN "invalid permission format: resource and permission cannot be empty"
        ELSE ""

\* why parsePermissions rejects a trimmed, non-empty item; "" when it does not
PermissionFault(item) ==
    LET parts == Split(item, ":")
    IN  IF Len(parts) # 2 THEN "invalid permission format: expected resource:permission"
        ELSE IF TrimSpace(parts[1]) = <<>> \/ TrimSpace(parts[2]) = <<>>
        THEN "invalid permission format: resource and permission cannot be empty"
        ELSE ""

\* a variant in which the first occurrence of a resource wins
parsePermissions_FirstWins(permissionsStr) ==
    LET items == NonEmpty(TrimAll(Split(TrimSpace(permissionsStr), ",")))
        bad   == FirstIndex([i \in 1..Len(items) |-> PermissionFault(items[i]) # ""])
        res(i) == TrimSpace(Split(items[i], ":")[1])
        per(i) == TrimSpace(Split(items[i], ":")[2])
        keys  == {res(i) : i \in 1..Len(items)}
        first(k) == CHOOSE i \in 1..Len(items) :
                      res(i) = k /\ \A j \in 1..(i-1) : res(j) # k
    IN  IF permissionsStr = <<>> THEN [perms |-> <<>>, err |-> NoErr]
        ELSE IF bad # 0
        THEN [perms |-> <<>>, err |-> Error(PermissionFault(items[bad]), items[bad])]
        ELSE [perms |-> [k \in keys |-> per(first(k))], err |-> NoErr]

\* parsePermissions; perms is the returned map (the empty function for nil
\* and for the empty map, which the callers do not tell apart)
parsePermissions(permissionsStr) ==
    LET items == NonEmpty(TrimAll(Split(TrimSpace(permissionsStr), ",")))
        bad   == FirstIndex([i \in 1..Len(items) |-> PermissionFault(items[i]) # ""])
        res(i) == TrimSpace(Split(items[i], ":")[1])
        per(i) == TrimSpace(Split(items[i], ":")[2])
        keys  == {res(i) : i \in 1..Len(items)}
        last(k) == CHOOSE i \in 1..Len(items) :
                      res(i) = k /\ \A j \in (i+1)..Len(items) : res(j) # k
    IN  IF permissionsStr = <<>> THEN [perms |-> <<>>, err |-> NoErr]
        ELSE IF bad # 0
        THEN [perms |-> <<>>, err |-> Error(PermissionFault(items[bad]), items[bad])]
        ELSE [perms |-> [k \in keys |-> per(last(k))], err |-> NoErr]

(* ------------------------- GitHub API client -------------------------- *)

\* AppResponse and TokenResponse, and their zero values
ZeroApp == [ID |-> 0, Slug |-> ""]

ZeroToken == [Token |-> "", ExpiresAt |-> "", Permissions |-> <<>>,
              RepositorySelection |-> "", Repositories |-> <<>>]

\* client.Do returned an error and a nil *http.Response
NoResponse == [status |-> 0, body |-> "none"]

\* what the server can answer to GET /app: "app" is the identity document,
\* "message" GitHub's JSON error object, "html" a body that is not JSON,
\* "truncated" a body whose read fails
GetResponses == [status : {200, 401}, body : {"app", "message", "html", "truncated"}]

\* what the server can answer to POST /app/installations/<id>/access_tokens
PostResponses == [status : {201, 401},
                  body : {"token_all", "token_selected", "message", "html", "truncated"}]

\* json.Unmarshal(body, &response) for an AppResponse: unknown fields are
\* ignored, absent fields keep their zero value
UnmarshalApp(body) ==
    CASE body = "app"     -> [value |-> [ID |-> 7, Slug |-> "my-app"], err |-> NoErr]
      [] body = "message" -> [value |-> ZeroApp, err |-> NoErr]
      [] OTHER            -> [value |-> ZeroApp, err |-> Error("invalid character", <<>>)]

\* json.Unmarshal(body, &response) for a TokenResponse
UnmarshalToken(body) ==
    CASE body = "token_all" ->
           [value |-> [Token |-> "ghs_all", ExpiresAt |-> "T1",
                       Permissions |-> [k \in {"contents"} |-> "read"],
                       RepositorySelection |-> "all", Repositories |-> <<>>],
            err |-> NoErr]
      [] body = "token_selected" ->
           [value |-> [Token |-> "ghs_sel", ExpiresAt |-> "T1",
                       Permissions |-> [k \in {"contents"} |-> "read"],
                       RepositorySelection |-> "selected",
                       Repositories |-> <<[ID |-> 10, Name |-> "a"], [ID |-> 20, Name |-> "b"]>>],
            err |-> NoErr]
      [] body = "message" -> [value |-> ZeroToken, err |-> NoErr]
      [] OTHER            -> [value |-> ZeroToken, err |-> Error("invalid character", <<>>)]

\* the request validateJWT builds
validateJWTRequest(jwt) ==
    [method |-> "GET", installation |-> "", auth |-> jwt,
     body |-> <<>>, contentType |-> FALSE]

\* validateJWT after client.Do: resp.Body of a nil response panics; the
\* status code is not looked at
validateJWT(resp) ==
    IF resp = NoResponse
    THEN [response |-> ZeroApp, err |-> NoErr, panicked |-> TRUE]
    ELSE IF resp.body = "truncated"
    THEN [response |-> ZeroApp, err |-> Error("unexpected EOF", <<>>), panicked |-> FALSE]
    ELSE [response |-> UnmarshalApp(resp.body).value,
          err |-> UnmarshalApp(resp.body).err, panicked |-> FALSE]

\* the map installationToken serialises from its arguments
reqDataOf(rd, perms) ==
    [k \in DOMAIN rd \cup (IF DOMAIN perms # {} THEN {"permissions"} ELSE {})
        |-> IF k = "permissions" THEN perms ELSE rd[k]]

\* the request with the Content-Type header added unconditionally
installationTokenRequest_AlwaysTyped(jwt, installation, rd, perms) ==
    LET reqData == reqDataOf(rd, perms)
    IN  [method |-> "POST", installation |-> installation, auth |-> jwt,
         body |-> IF DOMAIN reqData # {} THEN <<reqData>> ELSE <<>>,
         contentType |-> TRUE]

\* the request installationToken builds: body is <<>> for the empty buffer
\* and <<m>> for the JSON encoding of the map m
installationTokenRequest(jwt, installation, rd, perms) ==
    LET reqData == reqDataOf(rd, perms)
    IN  [method |-> "POST", installation |-> installation, auth |-> jwt,
         body |-> IF DOMAIN reqData # {} THEN <<reqData>> ELSE <<>>,
         contentType |-> DOMAIN reqData # {}]

\* installationToken after client.Do
installationToken(resp) ==
    IF resp = NoResponse
    THEN [response |-> ZeroToken, err |-> NoErr, panicked |-> TRUE]
    ELSE IF resp.body = "truncated"
    THEN [response |-> ZeroToken, err |-> Error("unexpected EOF", <<>>), panicked |-> FALSE]
    ELSE [response |-> UnmarshalToken(resp.body).value,
          err |-> UnmarshalToken(resp.body).err, panicked |-> FALSE]

(* ----------------------------- inputs --------------------------------- *)

\* values of the options; "" and <<>> are the unset option
AppIds        == {"", "123"}
ClientIds     == {"", "Iv1.test"}
Pems          == {<<>>, <<"K">>, <<"G">>, <<"S">>}
PemFiles      == {"", "key.pem"}
PemB64s       == {<<>>, <<"K">>, <<"G">>, <<"!">>, <<"K", "!">>}
Installations == {"", "12345"}
RepoIDsSet    == {<<>>, <<"1", "0", ",", "2", "0">>, <<"1", ",", "x">>, <<",">>}
RepoNamesSet  == {<<>>, <<"a", ",", "b">>, <<"o", "/", "r">>}
RepoIDsFiles  == {"", "repos.txt"}
PermissionsSet == {<<>>, <<"c", ":", "r">>, <<"c", ":", "r", ",", "c", ":", "w">>, <<"c">>}

\* outcomes of os.ReadFile: the bytes read and whether an error came with
\* them (a failed open returns no bytes, a failed read the bytes read so far)
PemFileReads == {[content |-> <<>>, failed |-> TRUE],
                 [content |-> <<"K">>, failed |-> TRUE],
                 [content |-> <<"K">>, failed |-> FALSE],
                 [content |-> <<"G">>, failed |-> FALSE],
                 [content |-> <<>>, failed |-> FALSE]}

RepoFileReads == {[content |-> <<>>, failed |-> TRUE],
                  [content |-> <<"1", "\n", "2", ",", "3">>, failed |-> FALSE],
                  [content |-> <<"1", "\n", "x">>, failed |-> FALSE],
                  [content |-> <<" ", "\n">>, failed |-> FALSE]}

\* the six output destinations in the order Exec visits them
Destinations == <<"JwtFile", "TokenFile", "JsonFile", "JwtSecret", "TokenSecret", "JsonSecret">>

\* a plain run: client id, inline key, installation, every output requested
BaseArgs ==
    [AppId |-> "", ClientId |-> "Iv1.test", Pem |-> <<"K">>, PemFile |-> "",
     PemB64 |-> <<>>, Installation |-> "12345", RepoIDs |-> <<>>,
     RepoNames |-> <<>>, RepoIDsFile |-> "", Permissions |-> <<>>,
     JwtFile |-> "jwt.txt", TokenFile |-> "token.txt", JsonFile |-> "out.json",
     JwtSecret |-> "jwt_secret", TokenSecret |-> "token_secret",
     JsonSecret |-> "json_secret"]

\* the runs that vary the identity and the key source
IdentityKeyArgs ==
    {[BaseArgs EXCEPT !.AppId = a, !.ClientId = c, !.Pem = p, !.PemFile = f,
                      !.PemB64 = b, !.Installation = i] :
        a \in AppIds, c \in ClientIds, p \in Pems, f \in PemFiles,
        b \in PemB64s, i \in Installations}

\* the runs that vary the scope of the token
ScopeArgs ==
    {[BaseArgs EXCEPT !.Installation = i, !.RepoIDs = r, !.RepoNames = n,
                      !.RepoIDsFile = f, !.Permissions = p] :
        i \in Installations, r \in RepoIDsSet, n \in RepoNamesSet,
        f \in RepoIDsFiles, p \in PermissionsSet}

\* the runs that vary the requested outputs
OutputArgs ==
    {[BaseArgs EXCEPT !.Installation = i, !.JwtFile = o[1], !.TokenFile = o[2],
                      !.JsonFile = o[3], !.JwtSecret = o[4],
                      !.TokenSecret = o[5], !.JsonSecret = o[6]] :
        i \in Installations,
        o \in [1..6 -> {"", "dest"}]}

\* the runs without a usable identity, over every pattern of the other options
NoIdentityArgs ==
    {[AppId |-> id[1], ClientId |-> id[2],
      Pem |-> k[1], PemFile |-> k[2], PemB64 |-> k[3], Installation |-> i,
      RepoIDs |-> r[1], RepoNames |-> r[2], RepoIDsFile |-> r[3], Permissions |-> r[4],
      JwtFile |-> o[1], TokenFile |-> o[2], JsonFile |-> o[3],
      JwtSecret |-> o[4], TokenSecret |-> o[5], JsonSecret |-> o[6]] :
        id \in {<<"", "">>, <<"123", "Iv1.test">>},
        k \in {<<>>, <<"K">>} \X PemFiles \X {<<>>, <<"K">>},
        i \in Installations,
        r \in {<<>>, <<"1">>} \X {<<>>, <<"a">>} \X RepoIDsFiles \X {<<>>, <<"c", ":", "r">>},
        o \in [1..6 -> {"", "dest"}]}

ArgsSet == IdentityKeyArgs \cup ScopeArgs \cup OutputArgs \cup NoIdentityArgs

(* ------------------------------ Exec ---------------------------------- *)

Init ==
    /\ args \in ArgsSet
    /\ pc = "start"
    /\ err = NoErr
    /\ now = 0
    /\ iat = 0
    /\ keyErr = FALSE
    /\ bPem = <<>>
    /\ jwtSigned = <<>>
    /\ appData = ZeroApp
    /\ tokenData = ZeroToken
    /\ repoData = <<>>
    /\ permissions = <<>>
    /\ repoFile = <<>>
    /\ sent = <<>>
    /\ getResp = <<>>
    /\ postResp = <<>>
    /\ outLog = <<>>

\* Exec returns e
Return(e) == pc' = "returned" /\ err' = e

\* the identity check without its second test
identityError_OnlyMissing(a) ==
    IF a.AppId = "" /\ a.ClientId = ""
    THEN Error("either app_id or client_id needs to be set", <<>>)
    ELSE NoErr

\* the identity check
identityError(a) ==
    IF a.AppId = "" /\ a.ClientId = ""
    THEN Error("either app_id or client_id needs to be set", <<>>)
    ELSE IF a.AppId # "" /\ a.ClientId # ""
    THEN Error("only one of app_id or client_id should be set", <<>>)
    ELSE NoErr

\* Exec up to the validation of the repository selection
ExecCheckArgs ==
    /\ pc = "start"
    /\ IF identityError(args) # NoErr THEN Return(identityError(args))
       ELSE IF validateRepositoryArgs(args) # NoErr
       THEN Return(validateRepositoryArgs(args))
       ELSE pc' = "loadkey" /\ err' = NoErr
    /\ UNCHANGED <<args, now, iat, keyErr, bPem, jwtSigned, appData, tokenData, repoData, repoFile, permissions,
                   sent, getResp, postResp, outLog>>

\* the key source chosen with the base64 string tried first
loadPem_B64First(a, file) ==
    IF a.PemB64 # <<>>
    THEN [kind |-> "b64", bytes |-> Base64Decode(a.PemB64).bytes,
          failed |-> Base64Decode(a.PemB64).failed]
    ELSE IF a.Pem # <<>> THEN [kind |-> "pem", bytes |-> a.Pem, failed |-> FALSE]
    ELSE IF a.PemFile # "" THEN [kind |-> "file", bytes |-> file.content, failed |-> file.failed]
    ELSE [kind |-> "none", bytes |-> <<>>, failed |-> FALSE]

\* the bytes the key source yields and whether an error came with them;
\* kind "none": no source is set
loadPem(a, file) ==
    IF a.Pem # <<>> THEN [kind |-> "pem", bytes |-> a.Pem, failed |-> FALSE]
    ELSE IF a.PemFile # "" THEN [kind |-> "file", bytes |-> file.content, failed |-> file.failed]
    ELSE IF a.PemB64 # <<>>
    THEN [kind |-> "b64", bytes |-> Base64Decode(a.PemB64).bytes,
          failed |-> Base64Decode(a.PemB64).failed]
    ELSE [kind |-> "none", bytes |-> <<>>, failed |-> FALSE]

\* the file reads possible for the key: one outcome when no file is read
PemReadsFor(a) ==
    IF a.Pem = <<>> /\ a.PemFile # "" THEN PemFileReads
    ELSE {[content |-> <<>>, failed |-> FALSE]}

\* Exec from the choice of the key source to the parsed key; the error of
\* the read or decode is printed and execution goes on
ExecLoadKey ==
    /\ pc = "loadkey"
    /\ \E file \in PemReadsFor(args) :
         LET src == loadPem(args, file)
         IN  /\ bPem' = src.bytes
             /\ keyErr' = src.failed
             /\ IF src.kind = "none"
                THEN Return(Error("one of pem, pam_file, or pem_b64 must be set", <<>>))
                ELSE IF Len(src.bytes) = 0
                THEN Return(Error("unable to parse pem", <<>>))
                ELSE IF ParseRSAPrivateKeyFromPEM(src.bytes).err # NoErr
                THEN Return(ParseRSAPrivateKeyFromPEM(src.bytes).err)
                ELSE pc' = "iat" /\ err' = NoErr
    /\ UNCHANGED <<args, now, iat, jwtSigned, appData, tokenData, repoData, repoFile, permissions,
                   sent, getResp, postResp, outLog>>

\* the wall clock advances while the claims are built
Tick ==
    /\ pc \in {"iat", "exp"}
    /\ now < MaxTicks
    /\ now' = now + 1
    /\ UNCHANGED <<args, pc, err, iat, keyErr, bPem, jwtSigned, appData,
                   tokenData, repoData, repoFile, permissions, sent, getResp, postResp, outLog>>

\* the first time.Now(), for "iat"
ExecReadIat ==
    /\ pc = "iat"
    /\ iat' = now
    /\ pc' = "exp"
    /\ UNCHANGED <<args, err, now, keyErr, bPem, jwtSigned, appData,
                   tokenData, repoData, repoFile, permissions, sent, getResp, postResp, outLog>>

\* the issuer: ClientId if provided, otherwise AppId
issuerOf(a) == IF a.ClientId # "" THEN a.ClientId ELSE a.AppId

\* the lifetime of the JWT in seconds: time.Minute * 10
JwtLifetime == 600

\* the claims built from the two readings of the clock
claimsOf(a, t1, t2) == [iat |-> t1, exp |-> t2 + JwtLifetime, iss |-> issuerOf(a)]

\* the second time.Now(), for "exp", and the signature
ExecSign ==
    /\ pc = "exp"
    /\ LET signKey == ParseRSAPrivateKeyFromPEM(bPem).key
           signed  == SignedString(signKey, claimsOf(args, iat, now))
       IN  /\ jwtSigned' = signed.jwt
           /\ IF signed.err # NoErr THEN Return(signed.err)
              ELSE pc' = "validate" /\ err' = NoErr
    /\ UNCHANGED <<args, now, iat, keyErr, bPem, appData, tokenData, repoData, repoFile, permissions,
                   sent, getResp, postResp, outLog>>

\* validateJWT sends GET /app
SendValidateJWT ==
    /\ pc = "validate"
    /\ sent' = Append(sent, validateJWTRequest(jwtSigned))
    /\ pc' = "await_get"
    /\ UNCHANGED <<args, err, now, iat, keyErr, bPem, jwtSigned, appData,
                   tokenData, repoData, repoFile, permissions, getResp, postResp, outLog>>

\* a variant that sends the request again, once, when validateJWT fails
RecvValidateJWT_Retry ==
    /\ pc = "await_get"
    /\ \E resp \in GetResponses \cup {NoResponse} :
         LET r == validateJWT(resp)
         IN  /\ getResp' = <<resp>>
             /\ IF r.panicked THEN pc' = "panicked" /\ UNCHANGED <<err, appData>>
                ELSE IF r.err # NoErr /\ Len(sent) < 2
                THEN pc' = "validate" /\ UNCHANGED <<err, appData>>
                ELSE IF r.err # NoErr THEN Return(r.err) /\ UNCHANGED appData
                ELSE pc' = "exchange" /\ appData' = r.response /\ err' = NoErr
    /\ UNCHANGED <<args, now, iat, keyErr, bPem, jwtSigned, tokenData, repoData, repoFile, permissions,
                   sent, postResp, outLog>>

\* client.Do returns in validateJWT, and Exec looks at the result
RecvValidateJWT ==
    /\ pc = "await_get"
    /\ \E resp \in GetResponses \cup {NoResponse} :
         LET r == validateJWT(resp)
         IN  /\ getResp' = <<resp>>
             /\ IF r.panicked THEN pc' = "panicked" /\ UNCHANGED <<err, appData>>
                ELSE IF r.err # NoErr THEN Return(r.err) /\ UNCHANGED appData
                ELSE pc' = "exchange" /\ appData' = r.response /\ err' = NoErr
    /\ UNCHANGED <<args, now, iat, keyErr, bPem, jwtSigned, tokenData, repoData, repoFile, permissions,
                   sent, postResp, outLog>>


\* os.ReadFile was not called
NoFile == [content |-> <<>>, failed |-> FALSE]

\* parseRepositoryData reads the file: the other two sources are unset
readsRepoFile(a) == a.RepoIDs = <<>> /\ a.RepoNames = <<>> /\ a.RepoIDsFile # ""

\* the file reads possible for the repository list
RepoReadsFor(a) == IF readsRepoFile(a) THEN RepoFileReads ELSE {NoFile}

\* a variant that asks for a token whatever the options
exchanges_Always(a) == TRUE

\* Exec asks for an installation token: the test around the parsers and
\* installationToken
exchanges(a) == a.Installation # ""

\* a variant that drops the error of parsePermissions
ExecRequestToken_IgnorePermErr ==
    /\ pc = "exchange"
    /\ IF ~exchanges(args)
       THEN pc' = "JwtFile" /\ UNCHANGED <<err, sent, repoData, repoFile, permissions>>
       ELSE \E file \in RepoReadsFor(args) :
              LET selecting == args.RepoIDs # <<>> \/ args.RepoNames # <<>>
                                 \/ args.RepoIDsFile # ""
                  repo  == IF selecting THEN parseRepositoryData(args, file)
                           ELSE [data |-> <<>>, err |-> NoErr]
                  perm  == [perms |-> IF args.Permissions # <<>>
                                      THEN parsePermissions(args.Permissions).perms
                                      ELSE <<>>,
                            err |-> NoErr]
              IN  /\ repoFile' = IF readsRepoFile(args) THEN <<file>> ELSE <<>>
                  /\ IF repo.err # NoErr
                     THEN Return(repo.err) /\ UNCHANGED <<sent, repoData, permissions>>
                     ELSE IF perm.err # NoErr
                     THEN Return(perm.err) /\ repoData' = repo.data
                          /\ UNCHANGED <<sent, permissions>>
                     ELSE /\ repoData' = repo.data
                          /\ permissions' = perm.perms
                          /\ sent' = Append(sent, installationTokenRequest(
                                        jwtSigned, args.Installation, repo.data, perm.perms))
                          /\ pc' = "await_post"
                          /\ err' = NoErr
    /\ UNCHANGED <<args, now, iat, keyErr, bPem, jwtSigned, appData, tokenData,
                   getResp, postResp, outLog>>


\* Exec from the installation test to client.Do in installationToken: the
\* repository data and the permissions are parsed, the request is sent
ExecRequestToken ==
    /\ pc = "exchange"
    /\ IF ~exchanges(args)
       THEN pc' = "JwtFile" /\ UNCHANGED <<err, sent, repoData, repoFile, permissions>>
       ELSE \E file \in RepoReadsFor(args) :
              LET selecting == args.RepoIDs # <<>> \/ args.RepoNames # <<>>
                                 \/ args.RepoIDsFile # ""
                  repo  == IF selecting THEN parseRepositoryData(args, file)
                           ELSE [data |-> <<>>, err |-> NoErr]
                  perm  == IF args.Permissions # <<>> THEN parsePermissions(args.Permissions)
                           ELSE [perms |-> <<>>, err |-> NoErr]
              IN  /\ repoFile' = IF readsRepoFile(args) THEN <<file>> ELSE <<>>
                  /\ IF repo.err # NoErr
                     THEN Return(repo.err) /\ UNCHANGED <<sent, repoData, permissions>>
                     ELSE IF perm.err # NoErr
                     THEN Return(perm.err) /\ repoData' = repo.data
                          /\ UNCHANGED <<sent, permissions>>
                     ELSE /\ repoData' = repo.data
                          /\ permissions' = perm.perms
                          /\ sent' = Append(sent, installationTokenRequest(
                                        jwtSigned, args.Installation, repo.data, perm.perms))
                          /\ pc' = "await_post"
                          /\ err' = NoErr
    /\ UNCHANGED <<args, now, iat, keyErr, bPem, jwtSigned, appData, tokenData,
                   getResp, postResp, outLog>>

\* client.Do returns in installationToken, and Exec looks at the result
RecvInstallationToken ==
    /\ pc = "await_post"
    /\ \E resp \in PostResponses \cup {NoResponse} :
         LET r == installationToken(resp)
         IN  /\ postResp' = <<resp>>
             /\ IF r.panicked THEN pc' = "panicked" /\ UNCHANGED <<err, tokenData>>
                ELSE IF r.err # NoErr THEN Return(r.err) /\ UNCHANGED tokenData
                ELSE pc' = "JwtFile" /\ tokenData' = r.response /\ err' = NoErr
    /\ UNCHANGED <<args, now, iat, keyErr, bPem, jwtSigned, appData,
                   repoData, repoFile, permissions, sent, getResp, outLog>>

\* the document written to JSON_FILE
jsonFileData(token, jwt) ==
    [Token |-> token, Jwt |-> jwt, RepositoryCount |-> Len(token.Repositories),
     Permissions |-> token.Permissions]

\* the document sent to JSON_SECRET: a JsonOutput with no field set
jsonSecretData(token, jwt) ==
    [Token |-> ZeroToken, Jwt |-> <<>>, RepositoryCount |-> 0, Permissions |-> <<>>]

\* a variant that goes on to the next destination after a failed write
Output_ContinueOnFailure(dest, wanted, value, next) ==
    /\ pc = dest
    /\ IF wanted
       THEN \E ok \in BOOLEAN :
              /\ outLog' = Append(outLog, [dest |-> dest, value |-> value, ok |-> ok])
              /\ IF next = "returned" THEN Return(NoErr) ELSE pc' = next /\ err' = NoErr
       ELSE /\ UNCHANGED outLog
            /\ IF next = "returned" THEN Return(NoErr) ELSE pc' = next /\ err' = NoErr
    /\ UNCHANGED <<args, now, iat, keyErr, bPem, jwtSigned, appData, tokenData, repoData, repoFile, permissions,
                   sent, getResp, postResp>>

\* one output step: when wanted, value goes to dest and the write may fail,
\* which ends the run; then Exec moves on to next
Output(dest, wanted, value, next) ==
    /\ pc = dest
    /\ IF wanted
       THEN \E ok \in BOOLEAN :
              /\ outLog' = Append(outLog, [dest |-> dest, value |-> value, ok |-> ok])
              /\ IF ok THEN (IF next = "returned" THEN Return(NoErr)
                             ELSE pc' = next /\ err' = NoErr)
                 ELSE Return(Error("write failed", <<>>))
       ELSE /\ UNCHANGED outLog
            /\ IF next = "returned" THEN Return(NoErr) ELSE pc' = next /\ err' = NoErr
    /\ UNCHANGED <<args, now, iat, keyErr, bPem, jwtSigned, appData, tokenData, repoData, repoFile, permissions,
                   sent, getResp, postResp>>

\* whether Exec writes the token file: skipped without an installation
writesTokenFile(a) == a.TokenFile # "" /\ a.Installation # ""

\* whether Exec sets the token secret
setsTokenSecret(a) == a.TokenSecret # ""

WriteJwtFile == Output("JwtFile", args.JwtFile # "", jwtSigned, "TokenFile")

WriteTokenFile == Output("TokenFile", writesTokenFile(args), tokenData.Token, "JsonFile")

WriteJsonFile ==
    Output("JsonFile", args.JsonFile # "", jsonFileData(tokenData, jwtSigned), "JwtSecret")

SetJwtSecret == Output("JwtSecret", args.JwtSecret # "", jwtSigned, "TokenSecret")

SetTokenSecret ==
    Output("TokenSecret", setsTokenSecret(args), tokenData.Token, "JsonSecret")

SetJsonSecret ==
    Output("JsonSecret", args.JsonSecret # "", jsonSecretData(tokenData, jwtSigned), "returned")

Next ==
    \/ ExecCheckArgs
    \/ ExecLoadKey
    \/ Tick
    \/ ExecReadIat
    \/ ExecSign
    \/ SendValidateJWT
    \/ RecvValidateJWT
    \/ ExecRequestToken
    \/ RecvInstallationToken
    \/ WriteJwtFile
    \/ WriteTokenFile
    \/ WriteJsonFile
    \/ SetJwtSecret
    \/ SetTokenSecret
    \/ SetJsonSecret

Spec == Init /\ [][Next]_vars

\* every run of Exec ends
FairSpec == Spec /\ WF_vars(Next)

(* ------------------- the parsers called on their own ------------------ *)

\* the longest repository option or file of the exhaustive inputs
MaxRepoLen == 4

\* the longest permission string of the exhaustive inputs
MaxPermLen == 5

\* every string over an alphabet up to a length
StringsUpTo(alphabet, n) == UNION {[1..k -> alphabet] : k \in 0..n}

\* n times the entry "1", separated by commas
CommaList(n) == [i \in 1..(2 * n - 1) |-> IF i % 2 = 1 THEN "1" ELSE ","]

\* lists around the limit: at it, one over it, at it with a stray comma,
\* and over it with an entry that is neither an ID nor a plain name
LongLists ==
    {CommaList(MaxRepoEntries), CommaList(MaxRepoEntries + 1),
     CommaList(MaxRepoEntries) \o <<",">>,
     <<"x", "/", "y", ",">> \o CommaList(MaxRepoEntries)}

RepoIDsInputs ==
    StringsUpTo({"1", "2", "x", ",", " "}, MaxRepoLen)
        \cup {<<"1", "0", ",", "2", "0">>, <<" ", "1", " ", ",", " ", "x", "1">>}
        \cup LongLists

RepoNamesInputs ==
    StringsUpTo({"a", "b", "/", ",", " "}, MaxRepoLen)
        \cup {<<"a", ",", "a", "/", "b">>, <<"a", "/", "b", ",", "b", "/", "a">>}
        \cup LongLists

RepoFileInputs ==
    StringsUpTo({"1", "2", "x", ",", "\n"}, MaxRepoLen)
        \cup {<<" ", "1", " ", ",", " ", "\n", " ">>, <<"1", "\n", "2", ",", "1">>,
              <<"1", ",", "2", ",", "1">>, <<"1", "\n", "\n", "2", ",", ",", "x">>}
        \cup LongLists

PermissionInputs ==
    StringsUpTo({"c", "r", ":", ","}, MaxPermLen)
        \cup {<<" ", "c", " ", ":", " ", "r", " ">>, <<"c", ":", "r", ",", " ", ",", "r", ":", "c">>,
              <<"c", ":", "r", ",", "c", ":", "c">>, <<"c", ":", "r", ",", ",", "r", ":", "c">>,
              <<"c", ":", "r", ",", "r", ":", "c", ",", "c", ":", "c">>,
              <<" ">>, <<"c", ":", " ">>}

\* the arguments of the direct calls: one option set, the rest as in BaseArgs
ParseArgs ==
    {[BaseArgs EXCEPT !.RepoIDs = s] : s \in RepoIDsInputs \ {<<>>}}
        \cup {[BaseArgs EXCEPT !.RepoNames = s] : s \in RepoNamesInputs \ {<<>>}}
        \cup {[BaseArgs EXCEPT !.RepoIDsFile = "repos.txt"]}
        \cup {[BaseArgs EXCEPT !.Permissions = s] : s \in PermissionInputs}

\* what os.ReadFile can return for the repo_ids_file of a direct call
ParseFileReads ==
    {[content |-> c, failed |-> FALSE] : c \in RepoFileInputs}
        \cup {[content |-> <<>>, failed |-> TRUE]}

ParseInit ==
    /\ args \in ParseArgs
    /\ pc = "call"
    /\ err = NoErr
    /\ now = 0
    /\ iat = 0
    /\ keyErr = FALSE
    /\ bPem = <<>>
    /\ jwtSigned = <<>>
    /\ appData = ZeroApp
    /\ tokenData = ZeroToken
    /\ repoData = <<>>
    /\ repoFile = <<>>
    /\ permissions = <<>>
    /\ sent = <<>>
    /\ getResp = <<>>
    /\ postResp = <<>>
    /\ outLog = <<>>

\* a repository option is set
selectsRepos(a) == a.RepoIDs # <<>> \/ a.RepoNames # <<>> \/ a.RepoIDsFile # ""

\* parseRepositoryData(args) is called and returns
CallParseRepositoryData ==
    /\ pc = "call"
    /\ selectsRepos(args)
    /\ \E file \in (IF readsRepoFile(args) THEN ParseFileReads ELSE {NoFile}) :
         /\ repoFile' = IF readsRepoFile(args) THEN <<file>> ELSE <<>>
         /\ repoData' = parseRepositoryData(args, file).data
         /\ err' = parseRepositoryData(args, file).err
    /\ pc' = "parsed"
    /\ UNCHANGED <<args, now, iat, keyErr, bPem, jwtSigned, appData, tokenData,
                   permissions, sent, getResp, postResp, outLog>>

\* parsePermissions(args.Permissions) is called and returns
CallParsePermissions ==
    /\ pc = "call"
    /\ ~selectsRepos(args)
    /\ permissions' = parsePermissions(args.Permissions).perms
    /\ err' = parsePermissions(args.Permissions).err
    /\ pc' = "parsed"
    /\ UNCHANGED <<args, now, iat, keyErr, bPem, jwtSigned, appData, tokenData,
                   repoData, repoFile, sent, getResp, postResp, outLog>>

ParseNext == CallParseRepositoryData \/ CallParsePermissions

ParseSpec == ParseInit /\ [][ParseNext]_vars

(* ======================= properties of the run ======================== *)

\* Exec has returned an error
Failed == pc = "returned" /\ err # NoErr

\* a token-exchange POST is among the requests sent
PostSent == \E i \in 1..Len(sent) : sent[i].method = "POST"

\* a write to dest was attempted
Attempted(dest) == \E i \in 1..Len(outLog) : outLog[i].dest = dest

\* a response with a status outside 200..299
Non2xx(resp) == resp.status < 200 \/ resp.status > 299

\* the body of a response cannot be read or is not JSON
Undecodable(resp) == resp.body \in {"html", "truncated"}

\* the messages of the errors Exec returns before it looks at the key
IdentityErrors == {"either app_id or client_id needs to be set",
                   "only one of app_id or client_id should be set"}

SelectionErrors == {"only one of repo_ids, repo_names, or repo_ids_file",
                    "installation must be specified"}

NoKeySourceError == "one of pem, pam_file, or pem_b64 must be set"

\* Exec has read a key source: it is past the key load and did not return
\* from a check that precedes it
KeyLoaded ==
    /\ pc \notin {"start", "loadkey"}
    /\ ~(pc = "returned" /\ err.kind \in IdentityErrors \cup SelectionErrors
                                            \cup {NoKeySourceError})

\* C1: once GET /app is answered with a non-2xx status or with a body that
\* does not decode, Exec has returned an error, no token POST was sent and
\* no file or secret was written.
C1_ValidationFailureAborts ==
    (getResp # <<>> /\ getResp[1] # NoResponse
        /\ (Non2xx(getResp[1]) \/ Undecodable(getResp[1])))
    => (Failed /\ ~PostSent /\ outLog = <<>>)

\* C2: with AppId and ClientId both empty or both set, Exec does nothing
\* but return one of the two identity errors: no request is sent, no key is
\* read and nothing is written, whatever the other options are.
C2_IdentityErrorFirst ==
    ((args.AppId = "") = (args.ClientId = ""))
    => /\ pc \in {"start", "returned"}
       /\ pc = "returned" => err.kind \in IdentityErrors
       /\ (args.AppId = "" /\ pc = "returned")
             => err.kind = "either app_id or client_id needs to be set"
       /\ sent = <<>> /\ outLog = <<>> /\ bPem = <<>>

\* C2 witness: both identities set, a valid key and outputs requested, and
\* Exec returned the identity error
C2_Witness ==
    /\ args.AppId # "" /\ args.ClientId # ""
    /\ args.Pem = <<"K">> /\ args.JwtFile # "" /\ args.Installation # ""
    /\ pc = "returned"
    /\ err.kind = "only one of app_id or client_id should be set"

\* C3: once the token POST is answered with a non-2xx status or with a body
\* that does not decode, Exec has returned an error and no output
\* destination was written.
C3_ExchangeFailureAborts ==
    (postResp # <<>> /\ postResp[1] # NoResponse
        /\ (Non2xx(postResp[1]) \/ Undecodable(postResp[1])))
    => (Failed /\ outLog = <<>>)

\* C4: once the transport failed on the GET or on the POST (an error and no
\* response), Exec has returned an error to its caller and neither the
\* exchange nor any output followed.
C4_TransportFailureReturnsError ==
    /\ getResp = <<NoResponse>> => (Failed /\ ~PostSent /\ outLog = <<>>)
    /\ postResp = <<NoResponse>> => (Failed /\ outLog = <<>>)

\* C5: the claims of every signed JWT satisfy exp - iat = 600.
C5_LifetimeIs600 ==
    jwtSigned # <<>> => jwtSigned[1].exp - jwtSigned[1].iat = 600

\* how many of the three key sources are set
KeySourceCount(a) ==
    (IF a.Pem # <<>> THEN 1 ELSE 0) + (IF a.PemFile # "" THEN 1 ELSE 0)
        + (IF a.PemB64 # <<>> THEN 1 ELSE 0)

\* b is what base64 decoding yields for s: the quanta before the first "!"
DecodedPrefix(b, s) ==
    /\ Len(b) <= Len(s)
    /\ \A i \in 1..Len(b) : b[i] = s[i] /\ s[i] # "!"
    /\ Len(b) < Len(s) => s[Len(b) + 1] = "!"

C7_KeyErrorsAreFatal ==
    (KeyLoaded /\ (keyErr \/ bPem = <<>> \/ ParseRSAPrivateKeyFromPEM(bPem).err # NoErr))
    => (Failed /\ sent = <<>> /\ outLog = <<>>)

\* how many of the three repository options are set
RepoOptionCount(a) ==
    Cardinality({k \in {"RepoIDs", "RepoNames"} : a[k] # <<>>})
        + Cardinality({k \in {"RepoIDsFile"} : a[k] # ""})

\* the selection is invalid: options that exclude each other, or an option
\* without an installation
InvalidSelection(a) ==
    RepoOptionCount(a) > 1 \/ (RepoOptionCount(a) >= 1 /\ a.Installation = "")

\* C8: validateRepositoryArgs returns an error exactly for an invalid
\* selection, and with a usable identity Exec then returns that error
\* before the key is read, a request is sent or an output is written.
C8_SelectionValidatedFirst ==
    /\ (validateRepositoryArgs(args) # NoErr) = InvalidSelection(args)
    /\ validateRepositoryArgs(args).kind \in SelectionErrors \cup {"nil"}
    /\ (InvalidSelection(args) /\ (args.AppId = "") # (args.ClientId = ""))
         => /\ pc \in {"start", "returned"}
            /\ pc = "returned" => err.kind \in SelectionErrors
            /\ bPem = <<>> /\ ~keyErr /\ sent = <<>> /\ outLog = <<>>
    /\ (pc = "returned" /\ err.kind \in SelectionErrors) => InvalidSelection(args)

\* C8 witness: one repository option without an installation, and Exec
\* returned the selection error
C8_Witness ==
    /\ RepoOptionCount(args) = 1 /\ args.Installation = ""
    /\ args.Pem = <<"K">> /\ args.JwtFile # ""
    /\ pc = "returned" /\ err.kind = "installation must be specified"

\* C9: without an installation no token POST is sent and neither the token
\* file nor the token secret is written.
C9_NoInstallationSkipsToken ==
    args.Installation = ""
    => (~PostSent /\ ~Attempted("TokenFile") /\ ~Attempted("TokenSecret"))

\* C10: the body of every token POST is non-empty exactly when repository
\* data or a non-empty permission set was passed, it then holds exactly
\* those entries, and Content-Type is set exactly when the body is
\* non-empty; without repository and permission options the body is empty
\* and there is no Content-Type.
C10_BodyIffScoped ==
    \A i \in 1..Len(sent) :
        sent[i].method = "POST"
        => /\ (sent[i].body # <<>>) = (DOMAIN repoData # {} \/ DOMAIN permissions # {})
           /\ sent[i].contentType = (sent[i].body # <<>>)
           /\ sent[i].body # <<>>
                => /\ DOMAIN sent[i].body[1] = DOMAIN repoData
                         \cup (IF DOMAIN permissions # {} THEN {"permissions"} ELSE {})
                   /\ \A k \in DOMAIN repoData : sent[i].body[1][k] = repoData[k]
                   /\ DOMAIN permissions # {} => sent[i].body[1]["permissions"] = permissions
           /\ (args.RepoIDs = <<>> /\ args.RepoNames = <<>> /\ args.RepoIDsFile = ""
                 /\ args.Permissions = <<>>)
                => (sent[i].body = <<>> /\ ~sent[i].contentType)

\* C10 witness: an installation without repository or permission options,
\* and the POST was sent with an empty body
C10_Witness ==
    /\ args.Installation # "" /\ args.RepoIDs = <<>> /\ args.RepoNames = <<>>
    /\ args.RepoIDsFile = "" /\ args.Permissions = <<>>
    /\ pc = "await_post"
    /\ sent[Len(sent)].method = "POST" /\ sent[Len(sent)].body = <<>>


(* ================= properties of the parsers (ParseSpec) ============== *)

\* the outcome of os.ReadFile seen by the call, NoFile when no file was read
ParsedFile == IF repoFile = <<>> THEN NoFile ELSE repoFile[1]

\* the text of the chosen repository source
SourceText(a, file) ==
    IF a.RepoIDs # <<>> THEN a.RepoIDs
    ELSE IF a.RepoNames # <<>> THEN a.RepoNames
    ELSE file.content

\* the separators of the chosen source's format
SourceSeps(a) == IF readsRepoFile(a) THEN {",", "\n"} ELSE {","}

\* s cut at every character of seps
SplitAny(s, seps) ==
    LET ends == SelectSeq([i \in 1..(Len(s) + 1) |-> i],
                          LAMBDA i : i = Len(s) + 1 \/ s[i] \in seps)
    IN  [k \in 1..Len(ends) |->
            SubSeq(s, IF k = 1 THEN 1 ELSE ends[k - 1] + 1, ends[k] - 1)]

\* the entries of a source: its non-empty trimmed tokens, in order
Entries(s, seps) ==
    LET tokens == SplitAny(s, seps)
    IN  SelectSeq([i \in 1..Len(tokens) |-> TrimSpace(tokens[i])],
                  LAMBDA t : Len(t) > 0)

\* the entries of the source parseRepositoryData was called on
ParsedEntries == Entries(SourceText(args, ParsedFile), SourceSeps(args))

\* parseRepositoryData has returned and its source could be read
ParsedRepos ==
    /\ pc = "parsed"
    /\ selectsRepos(args)
    /\ ~ParsedFile.failed

LimitError == Error("repository list cannot contain more than 500 entries", <<>>)

\* C11: for each of the three sources, a list of exactly 500 entries is not
\* rejected for its length and a list of 501 entries is rejected, an entry
\* being a non-empty trimmed token of the source.
C11_LimitCountsEntries ==
    ParsedRepos =>
        /\ Len(ParsedEntries) = MaxRepoEntries => err # LimitError
        /\ Len(ParsedEntries) = MaxRepoEntries + 1 => err # NoErr

\* C12: a source that is set but holds no entry gives no selector and no
\* error, for the two comma-separated options and the file alike.
C12_ZeroEntriesNoSelector ==
    (ParsedRepos /\ ParsedEntries = <<>>) => (repoData = <<>> /\ err = NoErr)


\* every entry of a list is a base-10 integer, and the list is within the limit
WellFormedIDs(entries) ==
    /\ Len(entries) \in 1..MaxRepoEntries
    /\ \A i \in 1..Len(entries) : AtoiOk(entries[i])

\* parseRepositoryData has returned from reading a file
ParsedFromFile == ParsedRepos /\ readsRepoFile(args)

\* C13: the repository_ids parsed from a file are exactly its non-empty
\* trimmed tokens in order of appearance, newlines and commas both being
\* separators; two contents with the same tokens parse to the same sequence.
C13_FileParseIsTokenSequence ==
    ParsedFromFile =>
        LET entries == ParsedEntries
        IN  WellFormedIDs(entries) =>
              /\ err = NoErr
              /\ repoData = [k \in {"repository_ids"} |->
                                [i \in 1..Len(entries) |-> Atoi(entries[i])]]

\* a file that mixes both separators, with an ID that appears twice
C13_Witness ==
    /\ ParsedFromFile
    /\ ParsedFile.content = <<"1", "\n", "2", ",", "1">>
    /\ err = NoErr
    /\ repoData = [k \in {"repository_ids"} |-> <<1, 2, 1>>]


\* names are parsed: RepoNames is the chosen source
NameMode(a) == a.RepoIDs = <<>> /\ a.RepoNames # <<>>

\* an entry the chosen mode does not allow
InvalidEntry(a, entry) ==
    IF NameMode(a) THEN \E i \in 1..Len(entry) : entry[i] = "/"
    ELSE ~AtoiOk(entry)

\* the positions of the invalid entries of a list
InvalidAt(a, entries) == {i \in 1..Len(entries) : InvalidEntry(a, entries[i])}

\* the error that names an invalid entry
EntryError(a, entry) ==
    IF NameMode(a) THEN Error("repository name should not include owner", entry)
    ELSE Error("invalid repository ID", entry)

\* C14 as stated: a list with an invalid entry gives no selector and an
\* error for its first invalid entry.
C14_FirstInvalidEntryNamed ==
    ParsedRepos =>
        LET entries == ParsedEntries
            bad == InvalidAt(args, entries)
        IN  bad # {} =>
              /\ repoData = <<>>
              /\ \E i \in bad : /\ \A j \in bad : i <= j
                                /\ err = EntryError(args, entries[i])

\* C14 amended: a list with an invalid entry gives no selector and an error,
\* which is either the error for the whole first invalid entry or, for a
\* list of more than 500 tokens only, the error for its length.
C14_InvalidEntryRejected ==
    ParsedRepos =>
        LET text == SourceText(args, ParsedFile)
            entries == Entries(text, SourceSeps(args))
            bad == InvalidAt(args, entries)
        IN  bad # {} =>
              /\ repoData = <<>>
              /\ \/ \E i \in bad : /\ \A j \in bad : i <= j
                                   /\ err = EntryError(args, entries[i])
                 \/ /\ err = LimitError
                    /\ Len(SplitAny(text, SourceSeps(args))) > MaxRepoEntries

\* an owner-qualified name after a plain one: rejected whole
C14_Witness ==
    /\ ParsedRepos
    /\ args.RepoNames = <<"a", ",", "a", "/", "b">>
    /\ repoData = <<>>
    /\ err = Error("repository name should not include owner", <<"a", "/", "b">>)


\* parsePermissions has returned from a non-empty permission spec
ParsedPermissions ==
    /\ pc = "parsed"
    /\ ~selectsRepos(args)
    /\ args.Permissions # <<>>

\* the comma-separated items of a permission spec, trimmed
PermissionItems(spec) ==
    LET items == SplitAny(spec, {","})
    IN  [i \in 1..Len(items) |-> TrimSpace(items[i])]

\* item splits on ':' into exactly two non-empty parts
WellFormedItem(item) ==
    \E c \in 1..Len(item) :
        /\ item[c] = ":"
        /\ \A j \in 1..Len(item) : item[j] = ":" => j = c
        /\ TrimSpace(SubSeq(item, 1, c - 1)) # <<>>
        /\ TrimSpace(SubSeq(item, c + 1, Len(item))) # <<>>

PermissionErrors ==
    {"invalid permission format: expected resource:permission",
     "invalid permission format: resource and permission cannot be empty"}

\* C15 as stated: any item that is not two non-empty parts, an empty item
\* included, makes parsePermissions return an error and no mapping.
C15_AnyBadItemRejected ==
    ParsedPermissions =>
        LET items == PermissionItems(args.Permissions)
        IN  (\E i \in 1..Len(items) : ~WellFormedItem(items[i])) =>
                (err.kind \in PermissionErrors /\ permissions = <<>>)

\* C15 amended: empty items are skipped; parsePermissions returns an error
\* and no mapping exactly when some non-empty item is not two non-empty
\* parts, and the error names the first such item.
C15_BadItemRejected ==
    ParsedPermissions =>
        LET items == PermissionItems(args.Permissions)
            bad == {i \in 1..Len(items) : items[i] # <<>> /\ ~WellFormedItem(items[i])}
        IN  IF bad = {} THEN err = NoErr
            ELSE /\ permissions = <<>>
                 /\ err.kind \in PermissionErrors
                 /\ \E i \in bad : (\A j \in bad : i <= j) /\ err.item = items[i]

\* an item without a colon after a well-formed one
C15_Witness ==
    /\ ParsedPermissions
    /\ args.Permissions = <<"c", ":", "r", ",", "c">>
    /\ permissions = <<>>
    /\ err = Error("invalid permission format: expected resource:permission", <<"c">>)


\* the resource and the permission of a well-formed item
ResourceOf(item) ==
    TrimSpace(SubSeq(item, 1, (CHOOSE c \in 1..Len(item) : item[c] = ":") - 1))

PermissionOf(item) ==
    TrimSpace(SubSeq(item, (CHOOSE c \in 1..Len(item) : item[c] = ":") + 1, Len(item)))

\* C16: for a well-formed permission spec parsePermissions returns the
\* mapping whose keys are exactly the resources the spec names, each mapped
\* to the permission of its last occurrence.
C16_LastWriteWins ==
    ParsedPermissions =>
        LET items == PermissionItems(args.Permissions)
            named == {ResourceOf(items[i]) : i \in 1..Len(items)}
        IN  (\A i \in 1..Len(items) : WellFormedItem(items[i])) =>
              /\ err = NoErr
              /\ DOMAIN permissions = named
              /\ \A i \in 1..Len(items) :
                    (\A j \in (i + 1)..Len(items) : ResourceOf(items[j]) # ResourceOf(items[i]))
                        => permissions[ResourceOf(items[i])] = PermissionOf(items[i])

\* the same resource twice with different permissions
C16_Witness ==
    /\ ParsedPermissions
    /\ args.Permissions = <<"c", ":", "r", ",", "c", ":", "c">>
    /\ err = NoErr
    /\ permissions = [k \in {<<"c">>} |-> <<"c">>]


(* ================== properties of the outputs (Spec) ================== *)

\* the Output Bundle of the run as a JSON document
BundleDocument ==
    [Token |-> tokenData, Jwt |-> jwtSigned,
     RepositoryCount |-> Len(tokenData.Repositories),
     Permissions |-> tokenData.Permissions]

\* C17: every JSON document Exec emits, to JSON_FILE or to JSON_SECRET,
\* carries the JWT signed in this run, the token obtained in this run, the
\* number of that token's repositories and that token's permissions.
C17_JsonMirrorsBundle ==
    \A i \in 1..Len(outLog) :
        outLog[i].dest \in {"JsonFile", "JsonSecret"} => outLog[i].value = BundleDocument


\* the methods of the requests sent, in order
Methods == [i \in 1..Len(sent) |-> sent[i].method]

\* the outbound calls so far are in program order, at most one of each, and
\* the outputs have not begun while a call is outstanding
CallsInOrder ==
    /\ Methods \in {<<>>, <<"GET">>, <<"GET", "POST">>}
    /\ PostSent => (getResp # <<>> /\ args.Installation # "")
    /\ outLog # <<>> => Len(getResp) + Len(postResp) = Len(sent)

\* C18: at most one GET and one POST are sent, the POST only after the GET
\* was answered and only with an Installation; no destination is written
\* before the last call of the run has completed, and no call follows a write.
C18_CallsInProgramOrder ==
    /\ []CallsInOrder
    /\ [][outLog # <<>> => sent' = sent]_vars

\* a run that made both calls and then wrote a destination
C18_Witness ==
    /\ Methods = <<"GET", "POST">>
    /\ getResp # <<>> /\ postResp # <<>>
    /\ outLog # <<>>


\* the error of the parsers for the arguments and the file read in a step
ParseErrorOf(a, read) ==
    LET file == IF read = <<>> THEN NoFile ELSE read[1]
        rerr == IF selectsRepos(a) THEN parseRepositoryData(a, file).err ELSE NoErr
        perr == IF a.Permissions # <<>> THEN parsePermissions(a.Permissions).err ELSE NoErr
    IN  IF rerr # NoErr THEN rerr ELSE perr

\* C19: with an Installation, an error of parseRepositoryData or of
\* parsePermissions ends Exec with that error: the step that parses returns
\* it with no token POST sent and no destination written, and nothing
\* follows the return.
C19_ParseErrorAborts ==
    /\ [][(pc = "exchange" /\ args.Installation # "" /\ ParseErrorOf(args, repoFile') # NoErr)
            => /\ pc' = "returned"
               /\ err' = ParseErrorOf(args, repoFile')
               /\ ~PostSent'
               /\ outLog' = <<>>]_vars
    /\ [][pc # "returned"]_vars

\* a run ended by a malformed permission spec, after the GET was answered
C19_Witness ==
    /\ args.Installation # ""
    /\ getResp # <<>>
    /\ pc = "returned"
    /\ err = ParseErrorOf(args, repoFile)
    /\ err.kind \in PermissionErrors
    /\ ~PostSent
    /\ outLog = <<>>


\* the option of a destination is set
Requested(dest) ==
    CASE dest = "JwtFile" -> args.JwtFile # ""
      [] dest = "TokenFile" -> args.TokenFile # ""
      [] dest = "JsonFile" -> args.JsonFile # ""
      [] dest = "JwtSecret" -> args.JwtSecret # ""
      [] dest = "TokenSecret" -> args.TokenSecret # ""
      [] dest = "JsonSecret" -> args.JsonSecret # ""

\* the destination is requested, TOKEN_FILE counting only with an Installation
Due(dest) == Requested(dest) /\ (dest = "TokenFile" => args.Installation # "")

\* the destinations of the writes attempted so far, in order
Written == [i \in 1..Len(outLog) |-> outLog[i].dest]

\* the writes so far are the first Len(outLog) of the list of destinations
\* given, none but the last has failed, a failure has ended the run with
\* its error, and a run that ended without error has written them all
FanOut(order) ==
    /\ Len(outLog) <= Len(order)
    /\ Written = SubSeq(order, 1, Len(outLog))
    /\ \A i \in 1..(Len(outLog) - 1) : outLog[i].ok
    /\ (outLog # <<>> /\ ~outLog[Len(outLog)].ok)
          => (pc = "returned" /\ err = Error("write failed", <<>>))
    /\ (pc = "returned" /\ err = NoErr) => Written = order

\* C20 as stated: the destinations whose option is set are written in the
\* fixed order, and a failed write ends the run with every earlier requested
\* destination written and no later one.
C20_EarlierRequestedWritten ==
    LET Pos(d) == CHOOSE i \in 1..Len(Destinations) : Destinations[i] = d
        n == Len(outLog)
    IN  /\ \A i \in 1..n : Requested(Written[i])
        /\ \A i, j \in 1..n : i < j => Pos(Written[i]) < Pos(Written[j])
        /\ \A i \in 1..(n - 1) : outLog[i].ok
        /\ (n > 0 /\ ~outLog[n].ok) =>
              /\ pc = "returned" /\ err = Error("write failed", <<>>)
              /\ \A k \in 1..(Pos(Written[n]) - 1) :
                    Requested(Destinations[k]) => \E i \in 1..(n - 1) : Written[i] = Destinations[k]

\* C20 amended: the same, TOKEN_FILE being written only when Installation
\* is set as well; what was written stays written.
C20_FanOutStopsAtFirstFailure ==
    /\ []FanOut(SelectSeq(Destinations, Due))
    /\ [][Len(outLog') >= Len(outLog) /\ SubSeq(outLog', 1, Len(outLog)) = outLog]_vars

\* the third write of a run failed after two that succeeded
C20_Witness ==
    /\ Len(outLog) = 3
    /\ outLog[1].ok /\ outLog[2].ok /\ ~outLog[3].ok
    /\ pc = "returned"
    /\ err = Error("write failed", <<>>)


(* ============== the frame of the Permissions option (Spec) ============ *)

\* what Exec hands to a destination when no token was asked for
TokenlessValue(dest) ==
    CASE dest \in {"JwtFile", "JwtSecret"} -> jwtSigned
      [] dest \in {"TokenFile", "TokenSecret"} -> ZeroToken.Token
      [] dest = "JsonFile" -> jsonFileData(ZeroToken, jwtSigned)
      [] dest = "JsonSecret" -> jsonSecretData(ZeroToken, jwtSigned)

\* nothing in the state of the run comes from the Permissions option
PermissionsUnused ==
    /\ permissions = <<>>
    /\ err.kind \notin PermissionErrors
    /\ tokenData = ZeroToken
    /\ \A i \in 1..Len(sent) : sent[i] = validateJWTRequest(jwtSigned)
    /\ \A i \in 1..Len(outLog) : outLog[i].value = TokenlessValue(outLog[i].dest)
    /\ jwtSigned # <<>> => jwtSigned[1].iss \in {args.AppId, args.ClientId}

\* C21: without an Installation the Permissions option is never parsed and
\* has no effect: whatever its value, well-formed or not, no error comes
\* from it, only the GET is sent, the outputs carry nothing of it, and the
\* step at the installation test only moves Exec on to the outputs.
C21_PermissionsIgnoredWithoutInstallation ==
    /\ [](args.Installation = "" => PermissionsUnused)
    /\ [][(args.Installation = "" /\ pc = "exchange")
            => (pc' = "JwtFile" /\ UNCHANGED <<args, err, now, iat, keyErr, bPem, jwtSigned,
                                              appData, tokenData, repoData, repoFile,
                                              permissions, sent, getResp, postResp, outLog>>)]_vars

\* a run with a malformed Permissions and no Installation that wrote its
\* outputs and returned without error
C21_Witness ==
    /\ args.Installation = ""
    /\ args.Permissions = <<"c">>
    /\ parsePermissions(args.Permissions).err # NoErr
    /\ pc = "returned"
    /\ err = NoErr
    /\ outLog # <<>>
    /\ Len(sent) = 1

====
